---- MODULE Spec2Model ----
(***************************************************************************)
(* Annotation canvas of Project Retina (Page component): pointer-driven    *)
(* freehand strokes over the expanded preview image, with a snapshot       *)
(* history (undo / redo / clear) and a drawing buffer that follows the     *)
(* rendered size of the image.                                             *)
(*                                                                         *)
(* Lengths on screen are exact rationals <<n, d>> (CSS pixels); the        *)
(* drawing buffer is a grid of integer pixels, and its content is the set  *)
(* of painted cells <<x, y, colour>> (a cell that is absent is             *)
(* transparent).  Null references are the empty sequence, a reference to   *)
(* v is <<v>>.                                                             *)
(***************************************************************************)
EXTENDS Integers, Sequences, FiniteSets, TLC

\* ---------------------------------------------------------------- bounds
\* Longest undo history explored (historyRef itself is unbounded).
MaxHist == 2
\* Rendered sizes of the image: scale k gives a box of (k+2)/2 x (k+1)/2 px,
\* whose left and top edge are at (LayoutWidth - k)/4 px.
Scales == {1, 2}
LayoutWidth == 5
\* Pointer positions, as fractions of the width and height of the canvas box.
PointerFractionsX == {<<0, 1>>, <<1, 2>>, <<1, 1>>}
PointerFractionsY == {<<1, 2>>}
\* One of the five pen swatches, one of the pen sizes 1..8, one image file.
Swatches == {"#2563eb"}
PenSizes == {3}
Files == {1}
\* Inputs of the buffer geometry taken on its own: buffer sizes, buffer
\* contents, and image scales (scale -1 is a box of 1/2 x 0 px, scale 0 an
\* image without a box).
BufferWidths == 1 .. 3
BufferHeights == 1 .. 2
BufferContents == {{}, {<<0, 0, "#2563eb">>}}
BoxScales == -1 .. 3
\* The analysis flow taken on its own: image files, and the most
\* classification requests in flight at a time.
AnalysisFiles == {1, 2}
MaxPending == 3

\* ------------------------------------------------------- program constants
DefaultCanvasWidth == 300
DefaultCanvasHeight == 150

\* ------------------------------------------------------------- arithmetic
Null == <<>>
Ref(v) == <<v>>
Deref(r) == r[1]

Abs(i) == IF i < 0 THEN -i ELSE i
Max(a, b) == IF a >= b THEN a ELSE b
Min(a, b) == IF a <= b THEN a ELSE b

RECURSIVE GCD(_, _)
GCD(a, b) == IF b = 0 THEN a ELSE GCD(b, a % b)

\* The rational n/d in lowest terms with a positive denominator.
Rat(n, d) ==
    LET g == GCD(Abs(n), Abs(d))
        sgn == IF d < 0 THEN -1 ELSE 1
    IN  <<sgn * (n \div g), sgn * (d \div g)>>
RatInt(i) == <<i, 1>>
RatAdd(p, q) == Rat(p[1] * q[2] + q[1] * p[2], p[2] * q[2])
RatSub(p, q) == Rat(p[1] * q[2] - q[1] * p[2], p[2] * q[2])
RatMul(p, q) == Rat(p[1] * q[1], p[2] * q[2])
RatDiv(p, q) == Rat(p[1] * q[2], p[2] * q[1])
\* Math.floor (\div rounds towards minus infinity for a positive divisor).
Floor(p) == p[1] \div p[2]

\* ------------------------------------------------------------------ state
VARIABLES
    status,         \* useState<Status>("idle")
    result,         \* Null or Ref([file, diagnosis, is_critical]): the AnalysisResult,
                    \* with the file it classifies
    pending,        \* fetches of /api/analyze in flight: the file in each one's form data
    file,           \* useState<File | null>: 0 is null, else a file of Files
    previewUrl,     \* useState<string | null>: 0 is null, else the object URL of that file
    isPreviewOpen,  \* useState(false)
    penColor,       \* useState("#2563eb")
    penSize,        \* useState(3)
    canUndo,        \* useState(false)
    canRedo,        \* useState(false)
    canvasRef,      \* Null or Ref([width, height, pix]): the mounted <canvas>
    imgRef,         \* Null or Ref([scale, loading]): the mounted <img>
    isDrawingRef,   \* useRef(false)
    lastPointRef,   \* Null or Ref([x, y]) in buffer coordinates
    historyRef,     \* useRef<ImageData[]>([]): the undo stack
    redoRef,        \* useRef<ImageData[]>([]): the redo stack
    \* observation of the run (not program state)
    lastOp,         \* the history handler that ran last ("other": another handler)
    pre,            \* facts about the state that handler started from
    netLen          \* completed strokes minus net effective undos since the last clear/reset

prog == <<status, result, pending, file, previewUrl, isPreviewOpen, penColor, penSize, canUndo, canRedo,
          canvasRef, imgRef, isDrawingRef, lastPointRef, historyRef, redoRef>>
obs == <<lastOp, pre, netLen>>
vars == <<prog, obs>>

\* The program state as one value, so that handlers are functions on it.
St ==
    [status |-> status, result |-> result, pending |-> pending, file |-> file, previewUrl |-> previewUrl, isPreviewOpen |-> isPreviewOpen,
     penColor |-> penColor, penSize |-> penSize, canUndo |-> canUndo,
     canRedo |-> canRedo, canvasRef |-> canvasRef, imgRef |-> imgRef,
     isDrawingRef |-> isDrawingRef, lastPointRef |-> lastPointRef,
     historyRef |-> historyRef, redoRef |-> redoRef]

Becomes(s) ==
    /\ status' = s.status
    /\ result' = s.result
    /\ pending' = s.pending
    /\ file' = s.file
    /\ previewUrl' = s.previewUrl
    /\ isPreviewOpen' = s.isPreviewOpen
    /\ penColor' = s.penColor
    /\ penSize' = s.penSize
    /\ canUndo' = s.canUndo
    /\ canRedo' = s.canRedo
    /\ canvasRef' = s.canvasRef
    /\ imgRef' = s.imgRef
    /\ isDrawingRef' = s.isDrawingRef
    /\ lastPointRef' = s.lastPointRef
    /\ historyRef' = s.historyRef
    /\ redoRef' = s.redoRef

\* ----------------------------------------------------- platform: elements
\* The modal (and with it <img> and <canvas>) is rendered under this guard.
ModalRendered(s) == s.isPreviewOpen /\ s.previewUrl # 0

\* A canvas element as the browser creates it: 300 x 150, transparent.
NewCanvas == [width |-> DefaultCanvasWidth, height |-> DefaultCanvasHeight, pix |-> {}]

\* getBoundingClientRect of the image at scale k (0: nothing laid out yet).
\* The canvas is absolutely positioned over the image (inset-0, full size),
\* so both elements have this box.
BoundingClientRect(k) ==
    IF k = 0
    THEN [left |-> RatInt(0), top |-> RatInt(0), width |-> RatInt(0), height |-> RatInt(0)]
    ELSE [left |-> Rat(LayoutWidth - k, 4), top |-> Rat(LayoutWidth - k, 4),
          width |-> Rat(k + 2, 2), height |-> Rat(k + 1, 2)]

\* A pointer event at fractions fx, fy of the canvas box.
PointerEvent(s, fx, fy) ==
    LET rect == BoundingClientRect(Deref(s.imgRef).scale)
    IN  [clientX |-> RatAdd(rect.left, RatMul(fx, rect.width)),
         clientY |-> RatAdd(rect.top, RatMul(fy, rect.height))]

\* ---------------------------------------------------- platform: 2d context
Cells(w, h) == (0 .. w - 1) \X (0 .. h - 1)

\* ctx.stroke() of the path moveTo(a); lineTo(b) with round caps: the cells of
\* the canvas that the line of width lineWidth covers.
StrokeCells(c, a, b, lineWidth) ==
    LET ax == Floor(a.x)  ay == Floor(a.y)
        bx == Floor(b.x)  by == Floor(b.y)
        grow == (lineWidth - 1) \div 2
        long == Max(Max(Abs(bx - ax), Abs(by - ay)), 1)
    IN  { p \in Cells(c.width, c.height) :
            /\ p[1] >= Min(ax, bx) - grow /\ p[1] <= Max(ax, bx) + grow
            /\ p[2] >= Min(ay, by) - grow /\ p[2] <= Max(ay, by) + grow
            /\ 2 * Abs((p[1] - ax) * (by - ay) - (p[2] - ay) * (bx - ax))
                 <= long * lineWidth }

Paint(c, cells, colour) ==
    [c EXCEPT !.pix = { q \in c.pix : <<q[1], q[2]>> \notin cells }
                        \cup { <<p[1], p[2], colour>> : p \in cells }]

\* ctx.clearRect(0, 0, canvas.width, canvas.height)
ClearRect(c) == [c EXCEPT !.pix = {}]

\* ctx.getImageData(0, 0, canvas.width, canvas.height): a copy of the pixels.
GetImageData(c) == [width |-> c.width, height |-> c.height, data |-> c.pix]

\* ctx.putImageData(image, 0, 0): the rectangle of the image replaces the
\* pixels under it, transparent ones included; the rest of the canvas stays.
PutImageData(c, image) ==
    [c EXCEPT !.pix =
        { q \in c.pix : ~(q[1] < image.width /\ q[2] < image.height) }
        \cup { q \in image.data : q[1] < c.width /\ q[2] < c.height }]

Last(q) == q[Len(q)]
Front(q) == SubSeq(q, 1, Len(q) - 1)

\* ------------------------------------------------------------- handlers
\* syncCanvasSize without "Math.max(1, ...)".
SyncCanvasSizeNoClamp(s) ==
    IF s.canvasRef = Null \/ s.imgRef = Null THEN s
    ELSE
        LET canvas == Deref(s.canvasRef)
            rect == BoundingClientRect(Deref(s.imgRef).scale)
            nextWidth == Floor(rect.width)
            nextHeight == Floor(rect.height)
        IN  IF canvas.width # nextWidth \/ canvas.height # nextHeight
            THEN [s EXCEPT !.canvasRef =
                     Ref([width |-> nextWidth, height |-> nextHeight, pix |-> {}])]
            ELSE s

\* syncCanvasSize
SyncCanvasSize(s) ==
    IF s.canvasRef = Null \/ s.imgRef = Null THEN s
    ELSE
        LET canvas == Deref(s.canvasRef)
            rect == BoundingClientRect(Deref(s.imgRef).scale)
            nextWidth == Max(1, Floor(rect.width))
            nextHeight == Max(1, Floor(rect.height))
        IN  IF canvas.width # nextWidth \/ canvas.height # nextHeight
            THEN \* assigning width/height resets the bitmap to transparent
                 [s EXCEPT !.canvasRef =
                     Ref([width |-> nextWidth, height |-> nextHeight, pix |-> {}])]
            ELSE s

\* getCanvasPoint without "- rect.left" and "- rect.top".
GetCanvasPointNoOffset(s, event) ==
    IF s.canvasRef = Null THEN [x |-> RatInt(0), y |-> RatInt(0)]
    ELSE
        LET canvas == Deref(s.canvasRef)
            rect == BoundingClientRect(Deref(s.imgRef).scale)
        IN  [x |-> RatMul(event.clientX, RatDiv(RatInt(canvas.width), rect.width)),
             y |-> RatMul(event.clientY, RatDiv(RatInt(canvas.height), rect.height))]

\* getCanvasPoint
GetCanvasPoint(s, event) ==
    IF s.canvasRef = Null THEN [x |-> RatInt(0), y |-> RatInt(0)]
    ELSE
        LET canvas == Deref(s.canvasRef)
            rect == BoundingClientRect(Deref(s.imgRef).scale)
        IN  [x |-> RatMul(RatSub(event.clientX, rect.left),
                          RatDiv(RatInt(canvas.width), rect.width)),
             y |-> RatMul(RatSub(event.clientY, rect.top),
                          RatDiv(RatInt(canvas.height), rect.height))]

\* handlePointerDown
HandlePointerDown(s, event) ==
    IF s.canvasRef = Null THEN s
    ELSE [s EXCEPT !.isDrawingRef = TRUE,
                   !.lastPointRef = Ref(GetCanvasPoint(s, event))]

\* handlePointerMove without "if (!isDrawingRef.current) return".
HandlePointerMoveNoIdleGuard(s, event) ==
    IF s.canvasRef = Null THEN s
    ELSE
        LET nextPoint == GetCanvasPoint(s, event)
            canvas == Deref(s.canvasRef)
        IN  IF s.lastPointRef = Null
            THEN [s EXCEPT !.lastPointRef = Ref(nextPoint)]
            ELSE [s EXCEPT
                    !.canvasRef = Ref(Paint(canvas,
                        StrokeCells(canvas, Deref(s.lastPointRef), nextPoint, s.penSize),
                        s.penColor)),
                    !.lastPointRef = Ref(nextPoint)]

\* handlePointerMove without the final "lastPointRef.current = nextPoint".
HandlePointerMoveKeepsLastPoint(s, event) ==
    IF ~s.isDrawingRef THEN s
    ELSE IF s.canvasRef = Null THEN s
    ELSE
        LET nextPoint == GetCanvasPoint(s, event)
            canvas == Deref(s.canvasRef)
        IN  IF s.lastPointRef = Null
            THEN [s EXCEPT !.lastPointRef = Ref(nextPoint)]
            ELSE [s EXCEPT
                    !.canvasRef = Ref(Paint(canvas,
                        StrokeCells(canvas, Deref(s.lastPointRef), nextPoint, s.penSize),
                        s.penColor))]

\* handlePointerMove
HandlePointerMove(s, event) ==
    IF ~s.isDrawingRef THEN s
    ELSE IF s.canvasRef = Null THEN s
    ELSE
        LET nextPoint == GetCanvasPoint(s, event)
            canvas == Deref(s.canvasRef)
        IN  IF s.lastPointRef = Null
            THEN [s EXCEPT !.lastPointRef = Ref(nextPoint)]
            ELSE [s EXCEPT
                    !.canvasRef = Ref(Paint(canvas,
                        StrokeCells(canvas, Deref(s.lastPointRef), nextPoint, s.penSize),
                        s.penColor)),
                    !.lastPointRef = Ref(nextPoint)]

\* handlePointerUp without "redoRef.current = []".
HandlePointerUpKeepsRedo(s) ==
    LET idle == [s EXCEPT !.isDrawingRef = FALSE, !.lastPointRef = Null]
    IN  IF s.canvasRef = Null THEN idle
        ELSE
            LET snapshot == GetImageData(Deref(s.canvasRef))
                history == Append(s.historyRef, snapshot)
            IN  [idle EXCEPT !.historyRef = history,
                             !.canUndo = Len(history) > 0,
                             !.canRedo = FALSE]

\* handlePointerUp without "isDrawingRef.current = false".
HandlePointerUpStaysDrawing(s) ==
    LET idle == [s EXCEPT !.lastPointRef = Null]
    IN  IF s.canvasRef = Null THEN idle
        ELSE
            LET snapshot == GetImageData(Deref(s.canvasRef))
                history == Append(s.historyRef, snapshot)
            IN  [idle EXCEPT !.historyRef = history,
                             !.redoRef = <<>>,
                             !.canUndo = Len(history) > 0,
                             !.canRedo = FALSE]

\* handlePointerUp (also the handler of onPointerLeave)
HandlePointerUp(s) ==
    LET idle == [s EXCEPT !.isDrawingRef = FALSE, !.lastPointRef = Null]
    IN  IF s.canvasRef = Null THEN idle
        ELSE
            LET snapshot == GetImageData(Deref(s.canvasRef))
                history == Append(s.historyRef, snapshot)
            IN  [idle EXCEPT !.historyRef = history,
                             !.redoRef = <<>>,
                             !.canUndo = Len(history) > 0,
                             !.canRedo = FALSE]

\* clearCanvas without "redoRef.current = []".
ClearCanvasKeepsRedo(s) ==
    IF s.canvasRef = Null THEN s
    ELSE [s EXCEPT !.canvasRef = Ref(ClearRect(Deref(s.canvasRef))),
                   !.historyRef = <<>>,
                   !.canUndo = FALSE,
                   !.canRedo = FALSE]

\* clearCanvas
ClearCanvas(s) ==
    IF s.canvasRef = Null THEN s
    ELSE [s EXCEPT !.canvasRef = Ref(ClearRect(Deref(s.canvasRef))),
                   !.historyRef = <<>>,
                   !.redoRef = <<>>,
                   !.canUndo = FALSE,
                   !.canRedo = FALSE]

\* undoStroke without "setCanRedo(...)".
UndoStrokeStaleFlag(s) ==
    IF s.canvasRef = Null \/ Len(s.historyRef) = 0 THEN s
    ELSE
        LET last == Last(s.historyRef)
            history == Front(s.historyRef)
            redo == Append(s.redoRef, last)
            cleared == ClearRect(Deref(s.canvasRef))
            shown == IF Len(history) > 0
                     THEN PutImageData(cleared, Last(history))
                     ELSE cleared
        IN  [s EXCEPT !.historyRef = history,
                      !.redoRef = redo,
                      !.canvasRef = Ref(shown),
                      !.canUndo = Len(history) > 0]

\* undoStroke without "ctx.clearRect(...)".
UndoStrokeNoClear(s) ==
    IF s.canvasRef = Null \/ Len(s.historyRef) = 0 THEN s
    ELSE
        LET last == Last(s.historyRef)
            history == Front(s.historyRef)
            redo == Append(s.redoRef, last)
            shown == IF Len(history) > 0
                     THEN PutImageData(Deref(s.canvasRef), Last(history))
                     ELSE Deref(s.canvasRef)
        IN  [s EXCEPT !.historyRef = history,
                      !.redoRef = redo,
                      !.canvasRef = Ref(shown),
                      !.canUndo = Len(history) > 0,
                      !.canRedo = Len(redo) > 0]

\* undoStroke without "historyRef.current.length === 0" in its guard: pop()
\* and at(-1) of an empty array give undefined, so nothing is moved or put
\* back, but the buffer is cleared.
UndoStrokeNoLengthGuard(s) ==
    IF s.canvasRef = Null THEN s
    ELSE IF Len(s.historyRef) = 0
    THEN [s EXCEPT !.canvasRef = Ref(ClearRect(Deref(s.canvasRef))),
                   !.canUndo = FALSE,
                   !.canRedo = Len(s.redoRef) > 0]
    ELSE
        LET last == Last(s.historyRef)
            history == Front(s.historyRef)
            redo == Append(s.redoRef, last)
            cleared == ClearRect(Deref(s.canvasRef))
            shown == IF Len(history) > 0
                     THEN PutImageData(cleared, Last(history))
                     ELSE cleared
        IN  [s EXCEPT !.historyRef = history,
                      !.redoRef = redo,
                      !.canvasRef = Ref(shown),
                      !.canUndo = Len(history) > 0,
                      !.canRedo = Len(redo) > 0]

\* undoStroke
UndoStroke(s) ==
    IF s.canvasRef = Null \/ Len(s.historyRef) = 0 THEN s
    ELSE
        LET last == Last(s.historyRef)
            history == Front(s.historyRef)
            redo == Append(s.redoRef, last)
            cleared == ClearRect(Deref(s.canvasRef))
            shown == IF Len(history) > 0
                     THEN PutImageData(cleared, Last(history))
                     ELSE cleared
        IN  [s EXCEPT !.historyRef = history,
                      !.redoRef = redo,
                      !.canvasRef = Ref(shown),
                      !.canUndo = Len(history) > 0,
                      !.canRedo = Len(redo) > 0]

\* redoStroke reading the last entry of redoRef without popping it.
RedoStrokeNoPop(s) ==
    IF s.canvasRef = Null \/ Len(s.redoRef) = 0 THEN s
    ELSE
        LET next == Last(s.redoRef)
            redo == s.redoRef
            history == Append(s.historyRef, next)
        IN  [s EXCEPT !.redoRef = redo,
                      !.historyRef = history,
                      !.canvasRef = Ref(PutImageData(Deref(s.canvasRef), next)),
                      !.canUndo = Len(history) > 0,
                      !.canRedo = Len(redo) > 0]

\* redoStroke
RedoStroke(s) ==
    IF s.canvasRef = Null \/ Len(s.redoRef) = 0 THEN s
    ELSE
        LET next == Last(s.redoRef)
            redo == Front(s.redoRef)
            history == Append(s.historyRef, next)
        IN  [s EXCEPT !.redoRef = redo,
                      !.historyRef = history,
                      !.canvasRef = Ref(PutImageData(Deref(s.canvasRef), next)),
                      !.canUndo = Len(history) > 0,
                      !.canRedo = Len(redo) > 0]

\* The effect without "redoRef.current = []".
PreviewEffectKeepsRedo(s) ==
    IF ~s.isPreviewOpen THEN s
    ELSE [SyncCanvasSize(s) EXCEPT !.historyRef = <<>>,
                                   !.canUndo = FALSE,
                                   !.canRedo = FALSE]

\* The effect without "historyRef.current = []".
PreviewEffectKeepsHistory(s) ==
    IF ~s.isPreviewOpen THEN s
    ELSE [SyncCanvasSize(s) EXCEPT !.redoRef = <<>>,
                                   !.canUndo = FALSE,
                                   !.canRedo = FALSE]

\* The effect on [isPreviewOpen, previewUrl]: sync the buffer, empty the history.
PreviewEffect(s) ==
    IF ~s.isPreviewOpen THEN s
    ELSE [SyncCanvasSize(s) EXCEPT !.historyRef = <<>>,
                                   !.redoRef = <<>>,
                                   !.canUndo = FALSE,
                                   !.canRedo = FALSE]

\* React commits the render of state s that follows state old: the modal's
\* <img> and <canvas> are mounted, kept or unmounted.  A newly mounted image
\* has no box (scale 0) until its load event; a kept <img> whose src changed
\* (newSrc) keeps its box until the new image loads.
Commit(old, s, newSrc) ==
    IF ~ModalRendered(s) THEN [s EXCEPT !.canvasRef = Null, !.imgRef = Null]
    ELSE IF ~ModalRendered(old)
    THEN [s EXCEPT !.canvasRef = Ref(NewCanvas),
                   !.imgRef = Ref([scale |-> 0, loading |-> TRUE])]
    ELSE IF newSrc
    THEN [s EXCEPT !.imgRef = Ref([Deref(old.imgRef) EXCEPT !.loading = TRUE])]
    ELSE s

\* handleFile, then the effect on [file] (a new object URL every time), the
\* commit and the effect on [isPreviewOpen, previewUrl].
HandleFile(s, nextFile) ==
    PreviewEffect(
        Commit(s, [s EXCEPT !.file = nextFile, !.previewUrl = nextFile,
                            !.result = Null, !.status = "preview"], TRUE))

\* resetFlow, then the same chain with previewUrl null.
ResetFlow(s) ==
    PreviewEffect(
        Commit(s, [s EXCEPT !.file = 0, !.previewUrl = 0,
                            !.result = Null, !.status = "idle"], FALSE))

\* analyzeImage up to "await fetch(...)": the request leaves with the file of
\* this render in its form data.
AnalyzeImage(s) ==
    IF s.file = 0 THEN s
    ELSE [s EXCEPT !.status = "analyzing",
                   !.result = Null,
                   !.pending = Append(@, s.file)]

RemoveAt(q, i) == SubSeq(q, 1, i - 1) \o SubSeq(q, i + 1, Len(q))

\* analyzeImage after the await, for request i answered with a classification
\* (response.ok and a JSON body) whose top tag names pneumonia or does not:
\* the result made from it is stored.
AnalysisSucceeded(s, i, pneumonia) ==
    LET diagnosis == IF pneumonia THEN "Pneumonia" ELSE "Normal"
    IN  [s EXCEPT !.pending = RemoveAt(@, i),
                  !.result = Ref([file |-> s.pending[i],
                                  diagnosis |-> diagnosis,
                                  is_critical |-> diagnosis = "Pneumonia"]),
                  !.status = "result"]

\* analyzeImage after the await, for request i that failed (fetch rejected,
\* response not ok, or a body that is not JSON): the catch block.
AnalysisFailed(s, i) ==
    [s EXCEPT !.pending = RemoveAt(@, i),
              !.status = "preview"]

\* setIsPreviewOpen(true) of the thumbnail button.
OpenPreview(s) ==
    PreviewEffect(Commit(s, [s EXCEPT !.isPreviewOpen = TRUE], FALSE))

\* setIsPreviewOpen(false) of the backdrop and of the Close button.
ClosePreview(s) ==
    PreviewEffect(Commit(s, [s EXCEPT !.isPreviewOpen = FALSE], FALSE))

\* onLoad of the expanded image: the image is laid out at scale k, then
\* syncCanvasSize runs.
ImgLoad(s, k) ==
    SyncCanvasSize([s EXCEPT !.imgRef =
        Ref([scale |-> k, loading |-> FALSE])])

\* The window's resize listener (handleResize): the layout gives the image
\* scale k, then syncCanvasSize runs.
HandleResize(s, k) ==
    SyncCanvasSize(
        IF s.imgRef = Null \/ Deref(s.imgRef).scale = 0 THEN s
        ELSE [s EXCEPT !.imgRef = Ref([Deref(s.imgRef) EXCEPT !.scale = k])])

\* ------------------------------------------------------------ observation
Facts(s) ==
    [isDrawing |-> s.isDrawingRef, histLen |-> Len(s.historyRef),
     redoLen |-> Len(s.redoRef)]

NoFacts == [isDrawing |-> FALSE, histLen |-> 0, redoLen |-> 0]

\* The history handler op ran from the current state and made the program
\* state s; net is strokes completed minus net undos after it.  Snapshots
\* pushed outside a stroke make netLen fall behind Len(historyRef) until the
\* next clear or reset; it is then kept one behind.
Observe(op, s, net) ==
    /\ lastOp' = op
    /\ pre' = Facts(St)
    /\ netLen' = Max(net, Len(s.historyRef) - 1)

\* A handler that neither reads nor writes the history.
Other ==
    /\ lastOp' = "other"
    /\ pre' = NoFacts
    /\ UNCHANGED netLen

\* A pointer handler that leaves the history alone.
ObservePointer(op) ==
    /\ lastOp' = op
    /\ pre' = NoFacts
    /\ UNCHANGED netLen

\* A step of the analysis flow.
ObserveAnalysis(op) ==
    /\ lastOp' = op
    /\ pre' = NoFacts
    /\ UNCHANGED netLen

\* The effect on [isPreviewOpen, previewUrl] empties the history when it runs
\* with the preview open.
ObserveEffect(s) ==
    IF s.isPreviewOpen THEN Observe("previewEffect", s, 0) ELSE Other

\* ---------------------------------------------------------------- actions
Init ==
    /\ status = "idle"
    /\ result = Null
    /\ pending = <<>>
    /\ file = 0
    /\ previewUrl = 0
    /\ isPreviewOpen = FALSE
    /\ penColor = "#2563eb"
    /\ penSize = 3
    /\ canUndo = FALSE
    /\ canRedo = FALSE
    /\ canvasRef = Null
    /\ imgRef = Null
    /\ isDrawingRef = FALSE
    /\ lastPointRef = Null
    /\ historyRef = <<>>
    /\ redoRef = <<>>
    /\ lastOp = "init"
    /\ pre = NoFacts
    /\ netLen = 0

\* The file input's onChange and onDrop (always rendered).  Spec is the
\* annotation of an image: the user selects images and works in the preview,
\* and never asks for an analysis (so "Analyze another image" never shows).
SelectFile ==
    \E nextFile \in Files :
        \E s \in {HandleFile(St, nextFile)} :
            Becomes(s) /\ ObserveEffect(s)

\* The Analyze button, disabled={!file || status === "analyzing"}.
Analyze ==
    /\ file # 0
    /\ status # "analyzing"
    /\ Len(pending) < MaxPending
    /\ \E s \in {AnalyzeImage(St)} :
        Becomes(s) /\ ObserveAnalysis("analyzeImage")

\* The answer to one of the requests in flight arrives.
RespondOk ==
    \E i \in 1 .. Len(pending), pneumonia \in BOOLEAN :
        \E s \in {AnalysisSucceeded(St, i, pneumonia)} :
            Becomes(s) /\ ObserveAnalysis("analysisSucceeded")

RespondFail ==
    \E i \in 1 .. Len(pending) :
        \E s \in {AnalysisFailed(St, i)} :
            Becomes(s) /\ ObserveAnalysis("analysisFailed")

\* "Analyze another image", rendered under status === "result" && result.
Reset ==
    /\ status = "result"
    /\ result # Null
    /\ \E s \in {ResetFlow(St)} :
        Becomes(s) /\ ObserveAnalysis("resetFlow")

\* The file input again, for the images of the analysis flow.
SelectImage ==
    \E nextFile \in AnalysisFiles :
        \E s \in {HandleFile(St, nextFile)} :
            Becomes(s) /\ ObserveAnalysis("handleFile")

\* The thumbnail button (rendered when previewUrl is set).
Open ==
    /\ previewUrl # 0
    /\ ~isPreviewOpen
    /\ \E s \in {OpenPreview(St)} :
        Becomes(s) /\ ObserveEffect(s)

\* The backdrop and the Close button of the modal.
Close ==
    /\ ModalRendered(St)
    /\ \E s \in {ClosePreview(St)} :
        Becomes(s) /\ ObserveEffect(s)

\* The load event of the expanded image.
Load ==
    /\ imgRef # Null
    /\ Deref(imgRef).loading
    /\ \E k \in Scales :
        \E s \in {ImgLoad(St, k)} :
            Becomes(s) /\ Other

\* The window's resize event while the listener is registered.
Resize ==
    /\ isPreviewOpen
    /\ \E k \in Scales :
        /\ imgRef # Null /\ Deref(imgRef).scale # 0 => k # Deref(imgRef).scale
        /\ \E s \in {HandleResize(St, k)} :
            Becomes(s) /\ Other

\* The swatch buttons and the size slider of the modal.
SetPenColor ==
    /\ ModalRendered(St)
    /\ \E c \in Swatches :
        Becomes([St EXCEPT !.penColor = c]) /\ Other

SetPenSize ==
    /\ ModalRendered(St)
    /\ \E n \in PenSizes :
        Becomes([St EXCEPT !.penSize = n]) /\ Other

\* Pointer events reach the canvas only while it has a box to hit.
CanvasHit == canvasRef # Null /\ imgRef # Null /\ Deref(imgRef).scale > 0

PointerDown ==
    /\ CanvasHit
    /\ \E fx \in PointerFractionsX, fy \in PointerFractionsY :
        \E s \in {HandlePointerDown(St, PointerEvent(St, fx, fy))} :
            Becomes(s) /\ ObservePointer("handlePointerDown")

PointerMove ==
    /\ CanvasHit
    /\ \E fx \in PointerFractionsX, fy \in PointerFractionsY :
        \E s \in {HandlePointerMove(St, PointerEvent(St, fx, fy))} :
            Becomes(s) /\ ObservePointer("handlePointerMove")

\* The stacks are explored up to MaxHist entries.
PointerUp ==
    /\ CanvasHit
    /\ Len(historyRef) < MaxHist
    /\ \E s \in {HandlePointerUp(St)} :
        /\ Becomes(s)
        /\ Observe("handlePointerUp", s, netLen + (IF isDrawingRef THEN 1 ELSE 0))

PointerLeave ==
    /\ CanvasHit
    /\ Len(historyRef) < MaxHist
    /\ \E s \in {HandlePointerUp(St)} :
        /\ Becomes(s)
        /\ Observe("handlePointerLeave", s, netLen + (IF isDrawingRef THEN 1 ELSE 0))

\* The Clear, Undo and Redo buttons of the modal.  Undo and Redo carry
\* disabled={!canUndo} / disabled={!canRedo}; the handlers are taken as
\* callable whenever the buttons exist, so that their own guards decide.
Clear ==
    /\ ModalRendered(St)
    /\ \E s \in {ClearCanvas(St)} :
        Becomes(s) /\ Observe("clearCanvas", s, 0)

Undo ==
    /\ ModalRendered(St)
    /\ \E s \in {UndoStroke(St)} :
        /\ Becomes(s)
        /\ Observe("undoStroke", s, IF s # St THEN netLen - 1 ELSE netLen)

Redo ==
    /\ ModalRendered(St)
    /\ \E s \in {RedoStroke(St)} :
        /\ Becomes(s)
        /\ Observe("redoStroke", s, IF s # St THEN netLen + 1 ELSE netLen)

Next ==
    \/ SelectFile
    \/ Open
    \/ Close
    \/ Load
    \/ Resize
    \/ SetPenColor
    \/ SetPenSize
    \/ PointerDown
    \/ PointerMove
    \/ PointerUp
    \/ PointerLeave
    \/ Clear
    \/ Undo
    \/ Redo

Spec == Init /\ [][Next]_vars

\* -------------------------------------------- the analysis flow on its own
\* handleFile, analyzeImage and resetFlow read and write file, previewUrl,
\* status and result and no state of the canvas, and no canvas handler writes
\* these.  AnalysisSpec is the program with the preview never opened.
AnalysisNext ==
    \/ SelectImage
    \/ Analyze
    \/ RespondOk
    \/ RespondFail
    \/ Reset

AnalysisSpec == Init /\ [][AnalysisNext]_vars

\* ------------------------------------------- the buffer geometry on its own
\* syncCanvasSize and getCanvasPoint read the mounted canvas and the box of
\* the image and nothing else.  GeometrySpec starts from any mounted canvas
\* (size, content) over an image at any scale, or from nothing mounted, and
\* applies the two functions.
GeometryInit ==
    /\ \/ /\ file = 0 /\ previewUrl = 0 /\ isPreviewOpen = FALSE
          /\ canvasRef = Null /\ imgRef = Null
       \/ /\ file \in Files /\ previewUrl = file /\ isPreviewOpen = TRUE
          /\ \E w \in BufferWidths, h \in BufferHeights, pix \in BufferContents :
                canvasRef = Ref([width |-> w, height |-> h, pix |-> pix])
          /\ \E k \in BoxScales :
                imgRef = Ref([scale |-> k, loading |-> FALSE])
    /\ status = (IF file = 0 THEN "idle" ELSE "preview")
    /\ result = Null
    /\ pending = <<>>
    /\ penColor = "#2563eb"
    /\ penSize = 3
    /\ canUndo = FALSE
    /\ canRedo = FALSE
    /\ isDrawingRef = FALSE
    /\ lastPointRef = Null
    /\ historyRef = <<>>
    /\ redoRef = <<>>
    /\ lastOp = "init"
    /\ pre = NoFacts
    /\ netLen = 0

\* syncCanvasSize is called; pre keeps the canvas it was called with.
GeometrySync ==
    /\ \E s \in {SyncCanvasSize(St)} : Becomes(s)
    /\ lastOp' = "syncCanvasSize"
    /\ pre' = [canvasRef |-> canvasRef]
    /\ UNCHANGED netLen

\* A pointer-down on a canvas that has a box: getCanvasPoint is called and its
\* result is stored in lastPointRef.
GeometryPoint ==
    /\ canvasRef # Null
    /\ Deref(imgRef).scale > 0
    /\ \E fx \in PointerFractionsX, fy \in PointerFractionsY :
        \E s \in {HandlePointerDown(St, PointerEvent(St, fx, fy))} : Becomes(s)
    /\ lastOp' = "getCanvasPoint"
    /\ pre' = NoFacts
    /\ UNCHANGED netLen

GeometryNext ==
    \/ GeometrySync
    \/ GeometryPoint

GeometrySpec == GeometryInit /\ [][GeometryNext]_vars

\* ----------------------------------------------------------------- claims
Pix(s) == Deref(s.canvasRef).pix
Idle(s) == ~s.isDrawingRef
PointerEvents(s) ==
    { PointerEvent(s, fx, fy) : fx \in PointerFractionsX, fy \in PointerFractionsY }
\* A stroke of one segment: begin at e0, sample at e1, end.
Stroke(s, e0, e1) == HandlePointerUp(HandlePointerMove(HandlePointerDown(s, e0), e1))
EndOps == {"handlePointerUp", "handlePointerLeave"}
\* The handler that ran last changed the history or is one that always writes it.
Mutated ==
    \/ lastOp \in EndOps \cup {"clearCanvas", "previewEffect"}
    \/ lastOp \in {"undoStroke", "redoStroke"} /\ pre.histLen # Len(historyRef)

\* C1: an end() (pointer-up or pointer-leave) that arrives while the session
\* is Idle changes neither stack and neither flag.
C1_EndWhileIdleIsNoOp ==
    (CanvasHit /\ Idle(St)) =>
        LET s == HandlePointerUp(St)
        IN  /\ s.historyRef = historyRef
            /\ s.redoRef = redoRef
            /\ s.canUndo = canUndo
            /\ s.canRedo = canRedo

\* C2: the length of the undo stack is the number of strokes completed minus
\* the net number of effective undos since the last clear or reset.
C2_LengthIsStrokesMinusUndos == Len(historyRef) = netLen

\* C3: a step that resizes the mounted buffer leaves both stacks empty and
\* both flags false.
C3_ResizeEmptiesHistory ==
    [][(/\ canvasRef # Null
        /\ canvasRef' # Null
        /\ <<Deref(canvasRef).width, Deref(canvasRef).height>>
             # <<Deref(canvasRef').width, Deref(canvasRef').height>>)
       => (historyRef' = <<>> /\ redoRef' = <<>> /\ ~canUndo' /\ ~canRedo')]_vars

\* C4: wherever undo() has an effect, undo() then redo() gives back the
\* buffer and both stacks as they were.
C4_UndoRedoRoundTrip ==
    (canvasRef # Null /\ Len(historyRef) > 0) =>
        LET s == RedoStroke(UndoStroke(St))
        IN  /\ s.canvasRef = canvasRef
            /\ s.historyRef = historyRef
            /\ s.redoRef = redoRef

\* C5: right after the end of a stroke has pushed its snapshot, the redo stack
\* is empty, canRedo is false, and the snapshot of the buffer is the last
\* entry of the undo stack, one longer than before.
C5_PushDiscardsRedo ==
    lastOp \in EndOps =>
        /\ redoRef = <<>>
        /\ ~canRedo
        /\ Len(historyRef) = pre.histLen + 1
        /\ Last(historyRef) = GetImageData(Deref(canvasRef))
C5_Witness == lastOp \in EndOps /\ pre.isDrawing /\ pre.redoLen > 0

\* C6: right after clear() both stacks are empty, both flags are false and the
\* buffer is blank, and an undo() or a redo() issued now changes nothing.
C6_ClearIsHardReset ==
    lastOp = "clearCanvas" =>
        /\ historyRef = <<>> /\ redoRef = <<>>
        /\ ~canUndo /\ ~canRedo
        /\ Pix(St) = {}
        /\ UndoStroke(St) = St
        /\ RedoStroke(St) = St
C6_Witness == lastOp = "clearCanvas" /\ pre.histLen > 0 /\ pre.redoLen > 0

\* C7: canUndo is true exactly when the undo stack is non-empty, canRedo
\* exactly when the redo stack is non-empty.
C7_FlagsMirrorStacks ==
    /\ canUndo <=> Len(historyRef) > 0
    /\ canRedo <=> Len(redoRef) > 0
C7_Witness == canUndo /\ canRedo /\ lastOp = "undoStroke"

\* C8 as stated: a mutation of the history that leaves the redo stack
\* non-empty is an undo.  (The other handlers leave both stacks alone, so this
\* is the claim at every later state too.)  It is stated for sessions in which
\* every snapshot was pushed by a completed stroke.
C8_RedoOnlyAfterUndo ==
    (Mutated /\ redoRef # <<>> /\ Len(historyRef) = netLen) => lastOp = "undoStroke"
\* C8 as amended: a mutation of the history that leaves the redo stack
\* non-empty is an undo or a redo, never a push, a clear or a reset.
C8_RedoOnlyAfterUndoOrRedo ==
    (Mutated /\ redoRef # <<>>) => lastOp \in {"undoStroke", "redoStroke"}
C8_Witness == lastOp = "redoStroke" /\ Mutated /\ redoRef # <<>>

\* C9: in a fresh session (mounted blank buffer, empty stacks, Idle), for all
\* strokes A and B: after A the stacks are [S1] and [], canUndo, not canRedo;
\* after undo() the buffer is blank and the stacks are [] and [S1], not
\* canUndo, canRedo; after B the stacks are [S2] and [], and undo/redo from
\* there only ever move S2.
FreshSession ==
    /\ CanvasHit /\ Idle(St)
    /\ historyRef = <<>> /\ redoRef = <<>>
    /\ Pix(St) = {}
C9_Scenario ==
    FreshSession =>
        \A e0 \in PointerEvents(St), e1 \in PointerEvents(St),
           e2 \in PointerEvents(St), e3 \in PointerEvents(St) :
            LET a == Stroke(St, e0, e1)
                S1 == GetImageData(Deref(a.canvasRef))
                u == UndoStroke(a)
                b == Stroke(u, e2, e3)
                S2 == GetImageData(Deref(b.canvasRef))
                bu == UndoStroke(b)
            IN  /\ a.historyRef = <<S1>> /\ a.redoRef = <<>>
                /\ a.canUndo /\ ~a.canRedo
                /\ Pix(u) = {}
                /\ u.historyRef = <<>> /\ u.redoRef = <<S1>>
                /\ ~u.canUndo /\ u.canRedo
                /\ b.historyRef = <<S2>> /\ b.redoRef = <<>>
                /\ RedoStroke(b) = b
                /\ bu.historyRef = <<>> /\ bu.redoRef = <<S2>>
                /\ UndoStroke(bu) = bu
                /\ RedoStroke(bu) = b
C9_Witness ==
    /\ lastOp = "handlePointerUp"
    /\ pre.isDrawing /\ pre.histLen = 0 /\ pre.redoLen = 1
    /\ Len(historyRef) = 1 /\ redoRef = <<>>
    /\ Pix(St) # {}

\* C10: undo() on an empty undo stack and redo() on an empty redo stack
\* change nothing: buffer, stacks and flags stay as they are.
C10_EmptyUndoRedoAbsorbed ==
    ModalRendered(St) =>
        /\ Len(historyRef) = 0 => UndoStroke(St) = St
        /\ Len(redoRef) = 0 => RedoStroke(St) = St
C10_Witness ==
    /\ lastOp = "undoStroke"
    /\ pre.histLen = 0 /\ pre.redoLen = 0
    /\ Pix(St) # {}

\* C11: right after the annotation surface is opened or reopened, or a new
\* image is loaded while it is open, both stacks are empty and both flags are
\* false, whatever the history held before.
C11_OpenStartsFreshHistory ==
    lastOp = "previewEffect" =>
        /\ historyRef = <<>> /\ redoRef = <<>>
        /\ ~canUndo /\ ~canRedo
C11_Witness == lastOp = "previewEffect" /\ pre.histLen > 0 /\ pre.redoLen > 0

\* C12: for every buffer size and every display box of positive width and
\* height, the screen point at the centre of the box maps to the centre of
\* the buffer, and every point maps linearly:
\* buffer.x * box.width = (screen.x - box.left) * buffer.width, likewise y.
BoxCentre(rect) ==
    [clientX |-> RatAdd(rect.left, RatDiv(rect.width, RatInt(2))),
     clientY |-> RatAdd(rect.top, RatDiv(rect.height, RatInt(2)))]
C12_CentreMapsToCentre ==
    (canvasRef # Null /\ Deref(imgRef).scale > 0) =>
        LET canvas == Deref(canvasRef)
            rect == BoundingClientRect(Deref(imgRef).scale)
            mid == GetCanvasPoint(St, BoxCentre(rect))
        IN  /\ mid.x = Rat(canvas.width, 2)
            /\ mid.y = Rat(canvas.height, 2)
            /\ \A e \in PointerEvents(St) :
                LET p == GetCanvasPoint(St, e)
                IN  /\ RatMul(p.x, rect.width)
                         = RatMul(RatSub(e.clientX, rect.left), RatInt(canvas.width))
                    /\ RatMul(p.y, rect.height)
                         = RatMul(RatSub(e.clientY, rect.top), RatInt(canvas.height))
\* A pointer-down at the centre of a 3/2 x 1 box over a 3 x 2 buffer.
C12_Witness ==
    /\ lastOp = "getCanvasPoint"
    /\ Deref(imgRef).scale = 1
    /\ Deref(canvasRef).width = 3 /\ Deref(canvasRef).height = 2
    /\ lastPointRef = Ref([x |-> <<3, 2>>, y |-> <<1, 1>>])

\* C13: with a non-empty undo stack, undo() moves the last entry of the undo
\* stack to the end of the redo stack and leaves the buffer equal to the new
\* last entry of the undo stack (the same painted cells), or blank if the
\* undo stack is now empty.
C13_UndoShowsPrevious ==
    (canvasRef # Null /\ Len(historyRef) > 0) =>
        LET u == UndoStroke(St)
        IN  /\ u.historyRef = Front(historyRef)
            /\ u.redoRef = Append(redoRef, Last(historyRef))
            /\ IF u.historyRef = <<>>
               THEN Pix(u) = {}
               ELSE Pix(u) = Last(u.historyRef).data

\* C14: with a non-empty redo stack, redo() moves the last entry of the redo
\* stack to the end of the undo stack and leaves the buffer equal to that
\* entry (the same painted cells); two undos followed by two redos put the
\* snapshots back in the order they were committed in.
C14_RedoShowsEntry ==
    /\ (canvasRef # Null /\ Len(redoRef) > 0) =>
            LET r == RedoStroke(St)
            IN  /\ r.redoRef = Front(redoRef)
                /\ r.historyRef = Append(historyRef, Last(redoRef))
                /\ Pix(r) = Last(redoRef).data
    /\ (canvasRef # Null /\ Len(historyRef) >= 2) =>
            LET r1 == RedoStroke(UndoStroke(UndoStroke(St)))
                r2 == RedoStroke(r1)
            IN  /\ r1.historyRef = Front(historyRef)
                /\ r2.historyRef = historyRef
                /\ r2.redoRef = redoRef

\* C15: a pointer-move that arrives while the session is Idle changes
\* nothing: no pixel, no last sample, still Idle, same stacks.
C15_SampleWhileIdleIsNoOp ==
    (CanvasHit /\ Idle(St)) =>
        \A e \in PointerEvents(St) : HandlePointerMove(St, e) = St
C15_Witness ==
    /\ lastOp = "handlePointerMove"
    /\ Idle(St) /\ lastPointRef = Null
    /\ Pix(St) # {} /\ historyRef # <<>> /\ redoRef # <<>>

\* C16: a pointer-down taken while Idle makes the session Drawing, records
\* the point of the event as last sample and changes nothing else (buffer,
\* stacks, flags); every pointer-move taken while Drawing paints exactly the
\* segment from the last sample to the point of the event and makes that
\* point the last sample, leaving stacks and flags alone, so that each
\* segment starts where the one before ended.
C16_BeginThenSamples ==
    [][/\ (lastOp' = "handlePointerDown" /\ ~isDrawingRef) =>
            /\ St' = [St EXCEPT !.isDrawingRef = TRUE, !.lastPointRef = lastPointRef']
            /\ \E e \in PointerEvents(St) :
                    lastPointRef' = Ref(GetCanvasPoint(St, e))
       /\ (lastOp' = "handlePointerMove" /\ isDrawingRef) =>
            /\ St' = [St EXCEPT
                        !.canvasRef = Ref(Paint(Deref(canvasRef),
                            StrokeCells(Deref(canvasRef), Deref(lastPointRef),
                                        Deref(lastPointRef'), penSize),
                            penColor)),
                        !.lastPointRef = lastPointRef']
            /\ \E e \in PointerEvents(St) :
                    lastPointRef' = Ref(GetCanvasPoint(St, e))]_vars
C16_Witness ==
    /\ lastOp = "handlePointerMove"
    /\ isDrawingRef /\ lastPointRef # Null
    /\ Cardinality(Pix(St)) = 2

\* C17: right after a pointer-leave that arrived while Drawing, the session
\* is Idle with no last sample, the undo stack is one longer and ends with
\* the snapshot of the buffer, and a pointer-move now changes nothing.
C17_LeaveEndsStroke ==
    (lastOp = "handlePointerLeave" /\ pre.isDrawing) =>
        /\ Idle(St) /\ lastPointRef = Null
        /\ Len(historyRef) = pre.histLen + 1
        /\ Last(historyRef) = GetImageData(Deref(canvasRef))
        /\ \A e \in PointerEvents(St) : HandlePointerMove(St, e) = St
C17_Witness == lastOp = "handlePointerLeave" /\ pre.isDrawing /\ Pix(St) # {}

\* C18: every undo() and every redo() leaves the sequence "undo stack
\* followed by the reversed redo stack" as it was: no snapshot is lost,
\* duplicated or reordered, and the two lengths add up to the same number.
RECURSIVE Reverse(_)
Reverse(q) == IF q = <<>> THEN <<>> ELSE Append(Reverse(Tail(q)), Head(q))
C18_UndoRedoConserveSnapshots ==
    [][lastOp' \in {"undoStroke", "redoStroke"} =>
            /\ historyRef' \o Reverse(redoRef') = historyRef \o Reverse(redoRef)
            /\ Len(historyRef') + Len(redoRef') = Len(historyRef) + Len(redoRef)]_vars
\* A redo after two undos of two different snapshots.
C18_Witness ==
    /\ lastOp = "redoStroke"
    /\ pre.histLen = 0 /\ pre.redoLen = 2
    /\ Len(historyRef) = 1 /\ Len(redoRef) = 1
    /\ historyRef[1] # redoRef[1]

\* C19: syncCanvasSize leaves a buffer whose width and height are the floor of
\* the rendered width and height of the image, and 1 where that floor is below
\* 1; when these are the dimensions the buffer already had, nothing changes
\* (content included), otherwise the buffer is blank; nothing but the buffer
\* changes, and with no canvas or image mounted nothing changes at all.
RatLeq(p, q) == p[1] * q[2] <= q[1] * p[2]
RatLess(p, q) == p[1] * q[2] < q[1] * p[2]
FloorAtLeastOne(n, r) ==
    IF RatLess(r, RatInt(1)) THEN n = 1
    ELSE RatLeq(RatInt(n), r) /\ RatLess(r, RatInt(n + 1))
C19_SyncFloorsAndClamps ==
    LET s == SyncCanvasSize(St)
    IN  IF canvasRef = Null \/ imgRef = Null THEN s = St
        ELSE
            LET old == Deref(canvasRef)
                new == Deref(s.canvasRef)
                rect == BoundingClientRect(Deref(imgRef).scale)
            IN  /\ FloorAtLeastOne(new.width, rect.width)
                /\ FloorAtLeastOne(new.height, rect.height)
                /\ IF <<new.width, new.height>> = <<old.width, old.height>>
                   THEN new = old
                   ELSE new.pix = {}
                /\ [s EXCEPT !.canvasRef = canvasRef] = St
\* A painted 3 x 2 buffer synced to an image of 1/2 x 0 px: 1 x 1 and blank.
C19_Witness ==
    /\ lastOp = "syncCanvasSize"
    /\ pre.canvasRef # Null
    /\ Deref(pre.canvasRef).width = 3 /\ Deref(pre.canvasRef).height = 2
    /\ Deref(pre.canvasRef).pix # {}
    /\ Deref(imgRef).scale = -1
    /\ canvasRef = Ref([width |-> 1, height |-> 1, pix |-> {}])

\* C20: a step in which a classification request fails leaves status other
\* than "analyzing" and no result stored, and issues no request; a request is
\* issued only by a click on Analyze.
C20_FailureIsNotRetried ==
    [][/\ lastOp' = "analysisFailed" =>
            /\ status' # "analyzing"
            /\ result' = Null
            /\ Len(pending') = Len(pending) - 1
       /\ Len(pending') > Len(pending) => lastOp' = "analyzeImage"]_vars

\* C21: whenever the session is Idle over a mounted buffer, the painted
\* cells of the buffer are those of the last entry of the undo stack, and the
\* buffer is blank when the undo stack is empty.
C21_IdleBufferIsLastSnapshot ==
    (canvasRef # Null /\ Idle(St)) =>
        IF historyRef = <<>>
        THEN Pix(St) = {}
        ELSE Pix(St) = Last(historyRef).data

\* C22: a step that opens the preview (a new annotation session) leaves the
\* session Idle with no last sample, whatever state the previous session was
\* closed in; and once the image of the new session has loaded, a
\* pointer-move that comes before any pointer-down changes nothing.
C22_NewSessionStartsIdle ==
    [][(~isPreviewOpen /\ isPreviewOpen') =>
            /\ ~isDrawingRef'
            /\ lastPointRef' = Null
            /\ \A k \in Scales :
                    LET s == ImgLoad(St', k)
                    IN  \A e \in PointerEvents(s) : HandlePointerMove(s, e) = s]_vars

\* C23: whenever status is "result", a file is selected and the stored
\* result is the classification of that file: the answer to a request made
\* for a file selected earlier is never the displayed result.
C23_ResultIsOfCurrentFile ==
    status = "result" =>
        /\ file # 0
        /\ result # Null
        /\ Deref(result).file = file
====
